---- MODULE Spec2Model ----
(***************************************************************************)
(* Model of temporalio/exceptions.py: the Temporal failure taxonomy        *)
(* (TemporalError, FailureError and its eight concrete subclasses) and the *)
(* classifier is_cancelled_exception.                                      *)
(*                                                                         *)
(* Encoding of Python values:                                              *)
(*   - a str is the sequence of its characters, <<"a", ":">> for "a:";     *)
(*   - Optional[T] is a sequence of length 0 (None) or 1 (the value);      *)
(*   - a tuple or *args is a sequence;                                     *)
(*   - an object is [cls |-> class name, d |-> instance dictionary], the   *)
(*     dictionary being a function from attribute names to values;         *)
(*   - a reference to an exception object is its index in heap.            *)
(***************************************************************************)
EXTENDS Integers, Sequences, FiniteSets, TLC

VARIABLES
    heap,     \* the exception objects alive, by reference
    call,     \* class and arguments of the last constructor call
    last,     \* last operation of the caller: "none", "new", "setattr", "delattr",
              \* "mutate", "classify"
    raised,   \* exception type the last operation raised, "" for none
    target,   \* attribute name the last assignment wrote to, "" for none
    result    \* return value of the last is_cancelled_exception call

vars == <<heap, call, last, raised, target, result>>

(* ------------------------------ bounds -------------------------------- *)

MaxStrLen == 2       \* longest message / type string drawn as an input
MaxDetails == 1      \* most *details / heartbeat payloads passed to a constructor
MaxChain == 3        \* most exception objects in one cause chain
MaxArgs == 2         \* most entries of an exception's args tuple
MaxList == 3         \* most entries a list is followed through in-place changes

(* --------------------------- Python values ----------------------------- *)

None == <<>>
Some(x) == <<x>>

Alphabet == {"a", ":"}
Strings == UNION {[1..k -> Alphabet] : k \in 0..MaxStrLen}
Payloads == {"p", "q"}
DetailSeqs == UNION {[1..k -> Payloads] : k \in 0..MaxDetails}
Names == {<<"x">>, <<"y">>}
EventIds == {7, 8}
Delays == {None, Some(5)}
WireFailures == {"wire"}
ArgTuples == UNION {[1..k -> {<<"x">>, <<"a", ":">>}] : k \in 0..MaxArgs}

\* "Cancelled"
STR_Cancelled == <<"C", "a", "n", "c", "e", "l", "l", "e", "d">>
\* "Workflow execution already started"
STR_AlreadyStarted ==
    <<"W", "o", "r", "k", "f", "l", "o", "w", " ",
      "e", "x", "e", "c", "u", "t", "i", "o", "n", " ",
      "a", "l", "r", "e", "a", "d", "y", " ",
      "s", "t", "a", "r", "t", "e", "d">>

(* ------------------------------ enums ---------------------------------- *)

TimeoutType == {"START_TO_CLOSE", "SCHEDULE_TO_START", "SCHEDULE_TO_CLOSE", "HEARTBEAT"}

RetryState ==
    {"IN_PROGRESS", "NON_RETRYABLE_FAILURE", "TIMEOUT", "MAXIMUM_ATTEMPTS_REACHED",
     "RETRY_POLICY_NOT_SET", "INTERNAL_SERVER_ERROR", "CANCEL_REQUESTED"}

OptTimeoutType == {None} \cup {Some(t) : t \in TimeoutType}
OptRetryState == {None} \cup {Some(r) : r \in RetryState}

(* --------------------------- class hierarchy --------------------------- *)

Variants ==
    {"WorkflowAlreadyStartedError", "ApplicationError", "CancelledError",
     "TerminatedError", "TimeoutError", "ServerError", "ActivityError",
     "ChildWorkflowError"}

\* Direct base class of each class ("" above BaseException).
Base(cls) ==
    CASE cls = "BaseException" -> ""
      [] cls = "Exception" -> "BaseException"
      [] cls = "asyncio.CancelledError" -> "BaseException"
      [] cls = "TemporalError" -> "Exception"
      [] cls = "FailureError" -> "TemporalError"
      [] cls \in Variants -> "FailureError"

RECURSIVE issubclass(_, _)
issubclass(cls, of) ==
    IF cls = of THEN TRUE
    ELSE IF cls = "" THEN FALSE
    ELSE issubclass(Base(cls), of)

\* isinstance(obj, cls); obj is an object, never None.
isinstance(obj, cls) == issubclass(obj.cls, cls)

(* ----------------------------- properties ------------------------------ *)

\* The read-only properties a class body declares: name -> backing attribute.
OwnProperties(cls) ==
    CASE cls = "TemporalError" -> {<<"cause", "__cause__">>}
      [] cls = "FailureError" -> {<<"message", "_message">>, <<"failure", "_failure">>}
      [] cls = "ApplicationError" ->
            {<<"details", "_details">>, <<"type", "_type">>,
             <<"non_retryable", "_non_retryable">>,
             <<"next_retry_delay", "_next_retry_delay">>}
      [] cls = "CancelledError" -> {<<"details", "_details">>}
      [] cls = "TerminatedError" -> {<<"details", "_details">>}
      [] cls = "TimeoutError" ->
            {<<"type", "_type">>, <<"last_heartbeat_details", "_last_heartbeat_details">>}
      [] cls = "ServerError" -> {<<"non_retryable", "_non_retryable">>}
      [] cls = "ActivityError" ->
            {<<"scheduled_event_id", "_scheduled_event_id">>,
             <<"started_event_id", "_started_event_id">>,
             <<"identity", "_identity">>,
             <<"activity_type", "_activity_type">>,
             <<"activity_id", "_activity_id">>,
             <<"retry_state", "_retry_state">>}
      [] cls = "ChildWorkflowError" ->
            {<<"namespace", "_namespace">>,
             <<"workflow_id", "_workflow_id">>,
             <<"run_id", "_run_id">>,
             <<"workflow_type", "_workflow_type">>,
             <<"initiated_event_id", "_initiated_event_id">>,
             <<"started_event_id", "_started_event_id">>,
             <<"retry_state", "_retry_state">>}
      [] OTHER -> {}

\* Properties visible on an instance of cls: its own and the inherited ones.
RECURSIVE Properties(_)
Properties(cls) ==
    IF cls = "" THEN {} ELSE OwnProperties(cls) \cup Properties(Base(cls))

PropertyNames(cls) == {p[1] : p \in Properties(cls)}
Backing(cls, name) == (CHOOSE p \in Properties(cls) : p[1] = name)[2]

(* --------------------------- attribute access -------------------------- *)

Return(v) == [exc |-> "", val |-> v]
Raise(e) == [exc |-> e, val |-> None]

\* obj.name: a property reads its backing attribute, a plain attribute is read
\* from the instance, anything else raises AttributeError.
getattr(obj, name) ==
    IF name \in PropertyNames(obj.cls) THEN Return(obj.d[Backing(obj.cls, name)])
    ELSE IF name \in DOMAIN obj.d THEN Return(obj.d[name])
    ELSE Raise("AttributeError")

\* A property with a setter: what every property would be were it writable.
setattr_writable(obj, name, v) ==
    IF name \in PropertyNames(obj.cls)
    THEN [exc |-> "", obj |-> [obj EXCEPT !.d = (Backing(obj.cls, name) :> v) @@ @]]
    ELSE [exc |-> "", obj |-> [obj EXCEPT !.d = (name :> v) @@ @]]

\* obj.name = v: the properties declare no setter, so assigning to one raises
\* AttributeError; any other name is stored on the instance.
setattr(obj, name, v) ==
    IF name \in PropertyNames(obj.cls)
    THEN [exc |-> "AttributeError", obj |-> obj]
    ELSE [exc |-> "", obj |-> [obj EXCEPT !.d = (name :> v) @@ @]]

\* The characters of s with every backslash, and every quote q, escaped.
RECURSIVE Escaped(_, _)
Escaped(s, q) ==
    IF s = <<>> THEN <<>>
    ELSE (IF Head(s) = "\\" \/ Head(s) = q THEN <<"\\", Head(s)>> ELSE <<Head(s)>>)
         \o Escaped(Tail(s), q)

\* repr(s) of a str of printable characters: in single quotes, or in double
\* quotes when s holds a single quote and no double quote.
repr(s) ==
    LET has(ch) == \E i \in 1..Len(s) : s[i] = ch
    IN  IF has("'") /\ ~has("\"")
        THEN <<"\"">> \o Escaped(s, "") \o <<"\"">>
        ELSE <<"'">> \o Escaped(s, "'") \o <<"'">>

\* repr of the entries of a tuple, separated by ", ".
RECURSIVE ReprJoin(_)
ReprJoin(t) ==
    IF Len(t) = 0 THEN <<>>
    ELSE IF Len(t) = 1 THEN repr(t[1])
    ELSE repr(t[1]) \o <<",", " ">> \o ReprJoin(Tail(t))

\* del obj.name: the properties declare no deleter (AttributeError), args and
\* __cause__ of an exception may not be deleted (TypeError), and any other
\* name is removed from the instance, AttributeError when it is not there.
delattr(obj, name) ==
    IF name \in PropertyNames(obj.cls) THEN [exc |-> "AttributeError", obj |-> obj]
    ELSE IF name \in {"args", "__cause__"} THEN [exc |-> "TypeError", obj |-> obj]
    ELSE IF name \notin DOMAIN obj.d THEN [exc |-> "AttributeError", obj |-> obj]
    ELSE [exc |-> "", obj |-> [obj EXCEPT !.d = [k \in DOMAIN @ \ {name} |-> @[k]]]]

\* str(e) of an exception whose args are strings: the empty string without
\* args, the single arg itself, and the repr of the tuple of two or more.
str(obj) ==
    LET args == obj.d["args"]
    IN  IF Len(args) = 0 THEN <<>>
        ELSE IF Len(args) = 1 THEN args[1]
        ELSE <<"(">> \o ReprJoin(args) \o <<")">>

(* ----------------------------- constructors ---------------------------- *)

\* BaseException.__new__/__init__: args stored, no cause.
BaseException_init(cls, args) ==
    [cls |-> cls, d |-> ("args" :> args) @@ ("__cause__" :> None)]

\* Stores the message where the failure belongs.
FailureError_init_swapped(cls, message, failure, exc_args) ==
    LET a == IF exc_args = None THEN <<message>> ELSE exc_args[1]
        self == BaseException_init(cls, a)
    IN  [self EXCEPT !.d = ("_message" :> message) @@ ("_failure" :> Some(message)) @@ @]

FailureError_init(cls, message, failure, exc_args) ==
    LET a == IF exc_args = None THEN <<message>> ELSE exc_args[1]
        self == BaseException_init(cls, a)
    IN  [self EXCEPT !.d = ("_message" :> message) @@ ("_failure" :> failure) @@ @]

\* Stores the workflow id as the run id.
WorkflowAlreadyStartedError_init_mixed(workflow_id, workflow_type, run_id) ==
    LET self == FailureError_init("WorkflowAlreadyStartedError", STR_AlreadyStarted, None, None)
    IN  [self EXCEPT !.d = ("workflow_id" :> workflow_id)
                           @@ ("workflow_type" :> workflow_type)
                           @@ ("run_id" :> Some(workflow_id)) @@ @]

WorkflowAlreadyStartedError_init(workflow_id, workflow_type, run_id) ==
    LET self == FailureError_init("WorkflowAlreadyStartedError", STR_AlreadyStarted, None, None)
    IN  [self EXCEPT !.d = ("workflow_id" :> workflow_id)
                           @@ ("workflow_type" :> workflow_type)
                           @@ ("run_id" :> run_id) @@ @]

\* Python truth value of an Optional[str]: None and "" are both false.
Truthy(s) == s # None /\ Len(s[1]) > 0

\* f"{type}: {message}"
FormatTyped(type, message) == type \o <<":", " ">> \o message

\* Prefixes whenever type is not None, the empty string included.
ApplicationError_init_isnone(message, details, type, non_retryable, next_retry_delay) ==
    LET display == IF type = None THEN message ELSE FormatTyped(type[1], message)
        self == FailureError_init("ApplicationError", message, None, Some(<<display>>))
    IN  [self EXCEPT !.d = ("_details" :> details) @@ ("_type" :> type)
                           @@ ("_non_retryable" :> non_retryable)
                           @@ ("_next_retry_delay" :> next_retry_delay) @@ @]

\* Formats the prefix without the separator.
ApplicationError_init_nosep(message, details, type, non_retryable, next_retry_delay) ==
    LET display == IF ~Truthy(type) THEN message ELSE type[1] \o message
        self == FailureError_init("ApplicationError", message, None, Some(<<display>>))
    IN  [self EXCEPT !.d = ("_details" :> details) @@ ("_type" :> type)
                           @@ ("_non_retryable" :> non_retryable)
                           @@ ("_next_retry_delay" :> next_retry_delay) @@ @]

ApplicationError_init(message, details, type, non_retryable, next_retry_delay) ==
    LET display == IF ~Truthy(type) THEN message ELSE FormatTyped(type[1], message)
        self == FailureError_init("ApplicationError", message, None, Some(<<display>>))
    IN  [self EXCEPT !.d = ("_details" :> details) @@ ("_type" :> type)
                           @@ ("_non_retryable" :> non_retryable)
                           @@ ("_next_retry_delay" :> next_retry_delay) @@ @]

\* Ignores the message argument and always uses the default.
CancelledError_init_default(posargs) ==
    LET self == FailureError_init("CancelledError", STR_Cancelled, None, None)
    IN  [self EXCEPT !.d = ("_details" :> (IF Len(posargs) = 0 THEN <<>> ELSE Tail(posargs))) @@ @]

\* CancelledError(*posargs): message binds the first positional argument or
\* defaults to "Cancelled"; the rest are the details.
CancelledError_init(posargs) ==
    LET message == IF Len(posargs) = 0 THEN STR_Cancelled ELSE posargs[1]
        details == IF Len(posargs) = 0 THEN <<>> ELSE Tail(posargs)
        self == FailureError_init("CancelledError", message, None, None)
    IN  [self EXCEPT !.d = ("_details" :> details) @@ @]

TerminatedError_init(message, details) ==
    LET self == FailureError_init("TerminatedError", message, None, None)
    IN  [self EXCEPT !.d = ("_details" :> details) @@ @]

\* Keeps the heartbeat details only of a HEARTBEAT timeout.
TimeoutError_init_guarded(message, type, last_heartbeat_details) ==
    LET self == FailureError_init("TimeoutError", message, None, None)
        kept == IF type = Some("HEARTBEAT") THEN last_heartbeat_details ELSE <<>>
    IN  [self EXCEPT !.d = ("_type" :> type) @@ ("_last_heartbeat_details" :> kept) @@ @]

TimeoutError_init(message, type, last_heartbeat_details) ==
    LET self == FailureError_init("TimeoutError", message, None, None)
    IN  [self EXCEPT !.d = ("_type" :> type)
                           @@ ("_last_heartbeat_details" :> last_heartbeat_details) @@ @]

ServerError_init(message, non_retryable) ==
    LET self == FailureError_init("ServerError", message, None, None)
    IN  [self EXCEPT !.d = ("_non_retryable" :> non_retryable) @@ @]

ActivityError_init(message, scheduled_event_id, started_event_id, identity, activity_type, activity_id, retry_state) ==
    LET self == FailureError_init("ActivityError", message, None, None)
    IN  [self EXCEPT !.d = ("_scheduled_event_id" :> scheduled_event_id)
                           @@ ("_started_event_id" :> started_event_id)
                           @@ ("_identity" :> identity)
                           @@ ("_activity_type" :> activity_type)
                           @@ ("_activity_id" :> activity_id)
                           @@ ("_retry_state" :> retry_state) @@ @]

ChildWorkflowError_init(message, namespace, workflow_id, run_id, workflow_type, initiated_event_id, started_event_id, retry_state) ==
    LET self == FailureError_init("ChildWorkflowError", message, None, None)
    IN  [self EXCEPT !.d = ("_namespace" :> namespace)
                           @@ ("_workflow_id" :> workflow_id)
                           @@ ("_run_id" :> run_id)
                           @@ ("_workflow_type" :> workflow_type)
                           @@ ("_initiated_event_id" :> initiated_event_id)
                           @@ ("_started_event_id" :> started_event_id)
                           @@ ("_retry_state" :> retry_state) @@ @]

(* ------------------------------ classifier ----------------------------- *)

\* isinstance(x, cls) of an Optional reference: None is an instance of nothing.
isinstance_ref(h, ref, cls) == ref # None /\ isinstance(h[ref[1]], cls)

\* Reads exception.cause before looking at the class of the exception.
is_cancelled_exception_eager(h, e) ==
    LET exception == h[e]
        c == getattr(exception, "cause")
    IN  IF c.exc # "" THEN [exc |-> c.exc, val |-> FALSE]
        ELSE Return(
            isinstance(exception, "asyncio.CancelledError")
            \/ isinstance(exception, "CancelledError")
            \/ ((isinstance(exception, "ActivityError")
                    \/ isinstance(exception, "ChildWorkflowError"))
                /\ isinstance_ref(h, c.val, "CancelledError")))

\* Accepts a CancelledError cause under any Temporal error, not only under the
\* two wrappers.
is_cancelled_exception_anycause(h, e) ==
    LET exception == h[e]
    IN  IF isinstance(exception, "asyncio.CancelledError") THEN Return(TRUE)
        ELSE IF isinstance(exception, "CancelledError") THEN Return(TRUE)
        ELSE IF isinstance(exception, "TemporalError")
        THEN Return(isinstance_ref(h, getattr(exception, "cause").val, "CancelledError"))
        ELSE Return(FALSE)

\* is_cancelled_exception(h[e]), evaluated left to right with the short circuit
\* of or/and: exception.cause is read only of an ActivityError or
\* ChildWorkflowError, and only one level deep.
is_cancelled_exception(h, e) ==
    LET exception == h[e]
    IN  IF isinstance(exception, "asyncio.CancelledError") THEN Return(TRUE)
        ELSE IF isinstance(exception, "CancelledError") THEN Return(TRUE)
        ELSE IF isinstance(exception, "ActivityError")
                \/ isinstance(exception, "ChildWorkflowError")
        THEN LET c == getattr(exception, "cause")
             IN  IF c.exc # "" THEN [exc |-> c.exc, val |-> FALSE]
                 ELSE Return(isinstance_ref(h, c.val, "CancelledError"))
        ELSE Return(FALSE)

(* ----------------------- one object and its fields --------------------- *)

Init ==
    /\ heap = <<>>
    /\ call = [cls |-> ""]
    /\ last = "none"
    /\ raised = ""
    /\ target = ""
    /\ result = None

\* The caller constructs obj with the arguments recorded in c.
Constructed(obj, c) ==
    /\ heap' = <<obj>>
    /\ call' = c
    /\ last' = "new"
    /\ raised' = ""
    /\ UNCHANGED <<target, result>>

New_FailureError ==
    \E message \in Strings, failure \in {None} \cup {Some(w) : w \in WireFailures},
       exc_args \in {None} \cup {Some(t) : t \in ArgTuples} :
        /\ last = "none"
        /\ Constructed(FailureError_init("FailureError", message, failure, exc_args),
                    [cls |-> "FailureError", message |-> message, failure |-> failure,
                     exc_args |-> exc_args])

New_WorkflowAlreadyStartedError ==
    \E workflow_id \in Names, workflow_type \in Names,
       run_id \in {None} \cup {Some(n) : n \in Names} :
        /\ last = "none"
        /\ Constructed(WorkflowAlreadyStartedError_init(workflow_id, workflow_type, run_id),
                    [cls |-> "WorkflowAlreadyStartedError", workflow_id |-> workflow_id,
                     workflow_type |-> workflow_type, run_id |-> run_id])

New_ApplicationError ==
    \E message \in Strings, details \in DetailSeqs,
       type \in {None} \cup {Some(t) : t \in Strings},
       non_retryable \in BOOLEAN, next_retry_delay \in Delays :
        /\ last = "none"
        /\ Constructed(ApplicationError_init(message, details, type, non_retryable,
                                          next_retry_delay),
                    [cls |-> "ApplicationError", message |-> message, details |-> details,
                     type |-> type, non_retryable |-> non_retryable,
                     next_retry_delay |-> next_retry_delay])

\* CancelledError(), CancelledError(m) and CancelledError(m, *details).
New_CancelledError ==
    \E posargs \in {<<>>} \cup {<<m>> \o ds : m \in Strings, ds \in DetailSeqs} :
        /\ last = "none"
        /\ Constructed(CancelledError_init(posargs),
                    [cls |-> "CancelledError", posargs |-> posargs])

New_TerminatedError ==
    \E message \in Strings, details \in DetailSeqs :
        /\ last = "none"
        /\ Constructed(TerminatedError_init(message, details),
                    [cls |-> "TerminatedError", message |-> message, details |-> details])

New_TimeoutError ==
    \E message \in Strings, type \in OptTimeoutType, last_heartbeat_details \in DetailSeqs :
        /\ last = "none"
        /\ Constructed(TimeoutError_init(message, type, last_heartbeat_details),
                    [cls |-> "TimeoutError", message |-> message, type |-> type,
                     last_heartbeat_details |-> last_heartbeat_details])

New_ServerError ==
    \E message \in Strings, non_retryable \in BOOLEAN :
        /\ last = "none"
        /\ Constructed(ServerError_init(message, non_retryable),
                    [cls |-> "ServerError", message |-> message,
                     non_retryable |-> non_retryable])

New_ActivityError ==
    \E message \in Strings, scheduled_event_id \in EventIds, started_event_id \in EventIds,
       identity \in Names, activity_type \in Names, activity_id \in Names,
       retry_state \in OptRetryState :
        /\ last = "none"
        /\ Constructed(ActivityError_init(message, scheduled_event_id, started_event_id,
                                       identity, activity_type, activity_id, retry_state),
                    [cls |-> "ActivityError", message |-> message,
                     scheduled_event_id |-> scheduled_event_id,
                     started_event_id |-> started_event_id, identity |-> identity,
                     activity_type |-> activity_type, activity_id |-> activity_id,
                     retry_state |-> retry_state])

New_ChildWorkflowError ==
    \E message \in Strings, namespace \in Names, workflow_id \in Names, run_id \in Names,
       workflow_type \in Names, initiated_event_id \in EventIds,
       started_event_id \in EventIds, retry_state \in OptRetryState :
        /\ last = "none"
        /\ Constructed(ChildWorkflowError_init(message, namespace, workflow_id, run_id,
                                            workflow_type, initiated_event_id,
                                            started_event_id, retry_state),
                    [cls |-> "ChildWorkflowError", message |-> message,
                     namespace |-> namespace, workflow_id |-> workflow_id,
                     run_id |-> run_id, workflow_type |-> workflow_type,
                     initiated_event_id |-> initiated_event_id,
                     started_event_id |-> started_event_id, retry_state |-> retry_state])

\* The plain public attributes an instance carries besides its properties.
PlainAttributes(cls) ==
    IF cls = "WorkflowAlreadyStartedError"
    THEN {"workflow_id", "workflow_type", "run_id", "args", "__cause__"}
    ELSE {"args", "__cause__"}

\* Every public name of an instance a caller can read, assign or delete.
PublicNames(cls) == PropertyNames(cls) \cup PlainAttributes(cls)

\* Values of the attribute's type a caller may try to assign.
AssignValues(cls, name) ==
    CASE name \in {"cause", "__cause__"} -> {None, Some(1)}
      [] name = "args" -> ArgTuples
      [] name = "message" -> Strings
      [] name = "failure" -> {None} \cup {Some(w) : w \in WireFailures}
      [] name \in {"details", "last_heartbeat_details"} -> DetailSeqs
      [] name = "type" /\ cls = "TimeoutError" -> OptTimeoutType
      [] name = "type" /\ cls # "TimeoutError" -> {None} \cup {Some(t) : t \in Strings}
      [] name = "non_retryable" -> BOOLEAN
      [] name = "next_retry_delay" -> Delays
      [] name = "retry_state" -> OptRetryState
      [] name = "run_id" /\ cls = "WorkflowAlreadyStartedError" ->
            {None} \cup {Some(n) : n \in Names}
      [] name \in {"scheduled_event_id", "started_event_id", "initiated_event_id"} ->
            EventIds
      [] OTHER -> Names

\* heap[1].name = v
AssignAttr(name, v) ==
    /\ heap # <<>>
    /\ LET r == setattr(heap[1], name, v)
       IN  /\ heap' = <<r.obj>>
           /\ raised' = r.exc
    /\ last' = "setattr"
    /\ target' = name
    /\ UNCHANGED <<call, result>>

\* Any assignment a caller can write against the public names of the object.
Assign ==
    /\ heap # <<>>
    /\ \E name \in PublicNames(heap[1].cls) :
        \E v \in AssignValues(heap[1].cls, name) : AssignAttr(name, v)

Next ==
    \/ New_FailureError
    \/ New_WorkflowAlreadyStartedError
    \/ New_ApplicationError
    \/ New_CancelledError
    \/ New_TerminatedError
    \/ New_TimeoutError
    \/ New_ServerError
    \/ New_ActivityError
    \/ New_ChildWorkflowError

Spec == Init /\ [][Next]_vars

(* ------------------------------ cause chains --------------------------- *)

ChainClasses == Variants \cup {"asyncio.CancelledError", "Exception"}

\* One instance of each class, built by its constructor.
Instance(cls) ==
    CASE cls = "WorkflowAlreadyStartedError" ->
            WorkflowAlreadyStartedError_init(<<"x">>, <<"y">>, None)
      [] cls = "ApplicationError" -> ApplicationError_init(<<"a">>, <<>>, None, FALSE, None)
      [] cls = "CancelledError" -> CancelledError_init(<<>>)
      [] cls = "TerminatedError" -> TerminatedError_init(<<"a">>, <<>>)
      [] cls = "TimeoutError" -> TimeoutError_init(<<"a">>, None, <<>>)
      [] cls = "ServerError" -> ServerError_init(<<"a">>, FALSE)
      [] cls = "ActivityError" ->
            ActivityError_init(<<"a">>, 7, 8, <<"x">>, <<"x">>, <<"y">>, None)
      [] cls = "ChildWorkflowError" ->
            ChildWorkflowError_init(<<"a">>, <<"x">>, <<"x">>, <<"y">>, <<"y">>, 7, 8, None)
      [] OTHER -> BaseException_init(cls, <<>>)

\* The first error of a chain is raised.
RaiseError(cls) ==
    /\ heap = <<>>
    /\ heap' = <<Instance(cls)>>
    /\ last' = "new"
    /\ result' = None
    /\ UNCHANGED <<call, raised, target>>

\* A new error becomes the cause of the innermost one: inner.__cause__ = new.
AttachCause(cls) ==
    /\ heap # <<>>
    /\ Len(heap) < MaxChain
    /\ LET n == Len(heap)
       IN  heap' = Append([heap EXCEPT ![n] = setattr(@, "__cause__", Some(n + 1)).obj],
                          Instance(cls))
    /\ last' = "new"
    /\ result' = None
    /\ UNCHANGED <<call, raised, target>>

\* An error already in the chain becomes the cause of the innermost one, which
\* closes a cycle: inner.__cause__ = heap[j] (j = Len(heap): its own cause).
LinkCause(j) ==
    /\ heap # <<>>
    /\ j \in 1..Len(heap)
    /\ heap' = [heap EXCEPT ![Len(heap)] = setattr(@, "__cause__", Some(j)).obj]
    /\ last' = "setattr"
    /\ result' = None
    /\ UNCHANGED <<call, raised, target>>

\* is_cancelled_exception(heap[e])
Classify(e) ==
    /\ e \in 1..Len(heap)
    /\ result' = Some([arg |-> e, out |-> is_cancelled_exception(heap, e)])
    /\ last' = "classify"
    /\ UNCHANGED <<heap, call, raised, target>>

NextCause ==
    \/ \E cls \in ChainClasses : RaiseError(cls)
    \/ \E cls \in ChainClasses : AttachCause(cls)
    \/ \E j \in 1..MaxChain : LinkCause(j)
    \/ \E e \in 1..MaxChain : Classify(e)

SpecCause == Init /\ [][NextCause]_vars

(* -------------------------- attribute assignment ----------------------- *)

\* del heap[1].name
DeleteAttr(name) ==
    /\ heap # <<>>
    /\ LET r == delattr(heap[1], name)
       IN  /\ heap' = <<r.obj>>
           /\ raised' = r.exc
    /\ last' = "delattr"
    /\ target' = name
    /\ UNCHANGED <<call, result>>

\* Any deletion a caller can write against the public names of the object.
Delete ==
    /\ heap # <<>>
    /\ \E name \in PublicNames(heap[1].cls) : DeleteAttr(name)

\* The in-place operations of a Python list (every mutating method and
\* operator of the type: append, extend, +=, *=, insert, pop, remove, clear,
\* reverse, sort, item and slice assignment, item and slice deletion), each
\* returning the exception it raises ("" for none) and the list afterwards.
\* Positions are Python's: counted from 0, and from the end when negative.
ListResult(e, l) == [exc |-> e, list |-> l]

\* Sequences the caller can hand to extend, += and slice assignment.
PayloadSeqs == UNION {[1..k -> Payloads] : k \in 0..MaxList}

\* Index and step arguments the caller can write.
Positions == (0 - (MaxList + 1))..(MaxList + 1)
OptPositions == {None} \cup {Some(i) : i \in Positions}
Steps == (0 - 2)..2
Counts == (0 - 1)..2

\* Key functions for sort: each payload's rank.
SortKeys == [Payloads -> 0..1]

RemoveAt(l, i) == SubSeq(l, 1, i) \o SubSeq(l, i + 2, Len(l))

\* A negative item index counts from the end.
ItemIndex(l, i) == IF i < 0 THEN i + Len(l) ELSE i

\* slice.indices: the bounds of a slice on a list of n entries.
AdjustIndex(n, i, step) == IF i < 0 THEN (IF i + n < 0 THEN (IF step < 0 THEN 0 - 1 ELSE 0) ELSE i + n) ELSE (IF i >= n THEN (IF step < 0 THEN n - 1 ELSE n) ELSE i)

SliceStart(n, start, step) == IF start = None THEN (IF step < 0 THEN n - 1 ELSE 0) ELSE AdjustIndex(n, start[1], step)

SliceStop(n, stop, step) == IF stop = None THEN (IF step < 0 THEN 0 - 1 ELSE n) ELSE AdjustIndex(n, stop[1], step)

\* The positions range(start, stop, step) selects, in order.
SliceRange(start, stop, step) == LET count == IF step > 0 THEN (IF start < stop THEN ((stop - start - 1) \div step) + 1 ELSE 0) ELSE (IF stop < start THEN ((start - stop - 1) \div (0 - step)) + 1 ELSE 0) IN [k \in 1..count |-> start + (k - 1) * step]

SlicePositions(l, start, stop, step) == SliceRange(SliceStart(Len(l), start, step), SliceStop(Len(l), stop, step), step)

\* l without the entries at the positions in gone.
Without(l, gone) == LET keep == {p \in 0..(Len(l) - 1) : p \notin gone} IN [k \in 1..Cardinality(keep) |-> l[1 + (CHOOSE p \in keep : Cardinality({q \in keep : q < p}) = k - 1)]]

RECURSIVE Repeat(_, _)
Repeat(l, n) == IF n <= 0 THEN <<>> ELSE l \o Repeat(l, n - 1)

list_append(l, p) == ListResult("", Append(l, p))

list_extend(l, seq) == ListResult("", l \o seq)

\* l += seq
list_iadd(l, seq) == list_extend(l, seq)

\* l *= n
list_imul(l, n) == ListResult("", Repeat(l, n))

list_insert(l, i, p) == LET j == ItemIndex(l, i) k == IF j < 0 THEN 0 ELSE IF j > Len(l) THEN Len(l) ELSE j IN ListResult("", SubSeq(l, 1, k) \o <<p>> \o SubSeq(l, k + 1, Len(l)))

\* l.pop(i); l.pop() is l.pop(-1)
list_pop(l, i) == LET j == ItemIndex(l, i) IN IF j < 0 \/ j >= Len(l) THEN ListResult("IndexError", l) ELSE ListResult("", RemoveAt(l, j))

list_clear(l) == ListResult("", <<>>)

list_remove(l, p) ==
    IF \A k \in 1..Len(l) : l[k] # p THEN ListResult("ValueError", l)
    ELSE LET first == CHOOSE k \in 1..Len(l) :
                          l[k] = p /\ \A m \in 1..(k - 1) : l[m] # p
         IN  ListResult("", RemoveAt(l, first - 1))

list_reverse(l) == ListResult("", [k \in 1..Len(l) |-> l[Len(l) + 1 - k]])

\* l.sort(key=key, reverse=rev): stable, entries of equal rank keep their order.
list_sort(l, key, rev) == LET low == SelectSeq(l, LAMBDA p : key[p] = 0) high == SelectSeq(l, LAMBDA p : key[p] = 1) IN ListResult("", IF rev THEN high \o low ELSE low \o high)

\* l[i] = p
list_setitem(l, i, p) == LET j == ItemIndex(l, i) IN IF j < 0 \/ j >= Len(l) THEN ListResult("IndexError", l) ELSE ListResult("", [l EXCEPT ![j + 1] = p])

\* del l[i]
list_delitem(l, i) == LET j == ItemIndex(l, i) IN IF j < 0 \/ j >= Len(l) THEN ListResult("IndexError", l) ELSE ListResult("", RemoveAt(l, j))

\* l[start:stop:step] = seq; step 1 is the plain slice l[start:stop], which
\* may change the length, any other step needs as many entries as it selects.
list_setslice(l, start, stop, step, seq) ==
    IF step = 0 THEN ListResult("ValueError", l)
    ELSE IF step = 1
    THEN LET lo == SliceStart(Len(l), start, 1)
             hi == SliceStop(Len(l), stop, 1)
             to == IF hi < lo THEN lo ELSE hi
         IN  ListResult("", SubSeq(l, 1, lo) \o seq \o SubSeq(l, to + 1, Len(l)))
    ELSE LET pos == SlicePositions(l, start, stop, step)
         IN  IF Len(seq) # Len(pos) THEN ListResult("ValueError", l)
             ELSE ListResult("", [k \in 1..Len(l) |->
                        IF \E m \in 1..Len(pos) : pos[m] = k - 1
                        THEN seq[CHOOSE m \in 1..Len(pos) : pos[m] = k - 1]
                        ELSE l[k]])

\* del l[start:stop:step]
list_delslice(l, start, stop, step) ==
    IF step = 0 THEN ListResult("ValueError", l)
    ELSE LET pos == SlicePositions(l, start, stop, step)
         IN  ListResult("", Without(l, {pos[m] : m \in 1..Len(pos)}))

\* Every outcome of one in-place operation on the list l, over every argument
\* the caller can give it; the list is followed up to MaxList entries.
ListOperations(l) ==
    LET all ==
            {list_clear(l), list_reverse(l)}
            \cup {list_append(l, p) : p \in Payloads}
            \cup {list_extend(l, seq) : seq \in PayloadSeqs}
            \cup {list_iadd(l, seq) : seq \in PayloadSeqs}
            \cup {list_imul(l, n) : n \in Counts}
            \cup {list_insert(l, i, p) : i \in Positions, p \in Payloads}
            \cup {list_pop(l, i) : i \in Positions}
            \cup {list_remove(l, p) : p \in Payloads}
            \cup {list_sort(l, key, rev) : key \in SortKeys, rev \in BOOLEAN}
            \cup {list_setitem(l, i, p) : i \in Positions, p \in Payloads}
            \cup {list_delitem(l, i) : i \in Positions}
            \cup {list_setslice(l, start, stop, step, seq) :
                      start \in OptPositions, stop \in OptPositions,
                      step \in Steps, seq \in PayloadSeqs}
            \cup {list_delslice(l, start, stop, step) :
                      start \in OptPositions, stop \in OptPositions, step \in Steps}
    IN  {r \in all : Len(r.list) <= MaxList}

\* The same outcomes, tabulated once per list.
ListOutcomes == {[before |-> l, after |-> ListOperations(l)] : l \in PayloadSeqs}

\* The caller changes in place the list it passed as last_heartbeat_details
\* (or the one the accessor hands back, the same object): the TimeoutError
\* keeps that very list, not a copy, so its field follows.
MutatePassedList ==
    /\ heap # <<>>
    /\ heap[1].cls = "TimeoutError"
    /\ \E t \in ListOutcomes :
          /\ t.before = heap[1].d["_last_heartbeat_details"]
          /\ \E r \in t.after :
                /\ heap' = <<[heap[1] EXCEPT !.d["_last_heartbeat_details"] = r.list]>>
                /\ raised' = r.exc
    /\ last' = "mutate"
    /\ target' = ""
    /\ UNCHANGED <<call, result>>

NextAssign ==
    \/ \E cls \in Variants : RaiseError(cls)
    \/ Assign
    \/ Delete
    \/ MutatePassedList

SpecAssign == Init /\ [][NextAssign]_vars

(* ------------------------------- properties ---------------------------- *)

\* The value the accessor obj.name returns.
Get(obj, name) == getattr(obj, name).val

\* The fields of an instance the taxonomy exposes: its properties and, on a
\* WorkflowAlreadyStartedError, the three plain attributes.
FieldNames(cls) == PublicNames(cls) \ {"args", "__cause__"}

Wrappers == {"ActivityError", "ChildWorkflowError"}

\* C1: is_cancelled_exception(e) returns true exactly when e is an
\* asyncio.CancelledError, or a CancelledError, or an ActivityError or
\* ChildWorkflowError whose direct cause is a CancelledError; it looks one level
\* deep only, and every other class yields false whatever its cause.
C1_DepthOneClassification ==
    result # None =>
        LET r == result[1]
            e == heap[r.arg]
            c == e.d["__cause__"]
        IN  /\ r.out.exc = ""
            /\ r.out.val = (\/ e.cls = "asyncio.CancelledError"
                            \/ e.cls = "CancelledError"
                            \/ /\ e.cls \in Wrappers
                               /\ c # None
                               /\ heap[c[1]].cls = "CancelledError")

\* A wrapper of a wrapper of a CancelledError has been classified: false.
C1_Witness ==
    /\ result # None
    /\ Len(heap) = 3
    /\ result[1].arg = 1
    /\ heap[1].cls = "ChildWorkflowError" /\ heap[1].d["__cause__"] = Some(2)
    /\ heap[2].cls = "ActivityError" /\ heap[2].d["__cause__"] = Some(3)
    /\ heap[3].cls = "CancelledError"
    /\ result[1].out.val = FALSE

\* C2: an ApplicationError constructed with a non-empty type has the display
\* string (its args and its str) "{type}: {message}", and its message accessor
\* returns the message without the prefix.
C2_TypedDisplay ==
    (heap # <<>> /\ call.cls = "ApplicationError" /\ call.type # None
        /\ Len(call.type[1]) > 0) =>
        /\ heap[1].d["args"] = <<call.type[1] \o <<":", " ">> \o call.message>>
        /\ str(heap[1]) = call.type[1] \o <<":", " ">> \o call.message
        /\ getattr(heap[1], "message").exc = ""
        /\ Get(heap[1], "message") = call.message

\* ApplicationError(":", type="a:") displays as "a:: :" and keeps message ":".
C2_Witness ==
    /\ heap # <<>>
    /\ call.cls = "ApplicationError"
    /\ call.type = Some(<<"a", ":">>)
    /\ call.message = <<":">>
    /\ str(heap[1]) = <<"a", ":", ":", " ", ":">>
    /\ Get(heap[1], "message") = <<":">>

\* C3 as claimed: the display string of an ApplicationError is the message when
\* type is None and "{type}: {message}" for every type that is present, the
\* empty string included; the message accessor returns the message.
C3_AsClaimed ==
    (heap # <<>> /\ call.cls = "ApplicationError") =>
        /\ str(heap[1]) = (IF call.type = None THEN call.message
                           ELSE call.type[1] \o <<":", " ">> \o call.message)
        /\ Get(heap[1], "message") = call.message

\* C3 as amended: the display string is the message when type is None or the
\* empty string, and "{type}: {message}" for every non-empty type; the message
\* accessor returns the message in every case.
C3_PrefixIffNonEmptyType ==
    (heap # <<>> /\ call.cls = "ApplicationError") =>
        /\ str(heap[1]) = (IF call.type = None \/ call.type = Some(<<>>)
                           THEN call.message
                           ELSE call.type[1] \o <<":", " ">> \o call.message)
        /\ Get(heap[1], "message") = call.message

\* ApplicationError("a", type="") displays as "a", with no ": " prefix.
C3_Witness ==
    /\ heap # <<>>
    /\ call.cls = "ApplicationError"
    /\ call.type = Some(<<>>)
    /\ call.message = <<"a">>
    /\ str(heap[1]) = <<"a">>
    /\ Get(heap[1], "type") = Some(<<>>)

C5_TotalAndPure ==
    [][\A e \in 1..Len(heap) : Classify(e) =>
            /\ heap' = heap
            /\ result'[1].arg = e
            /\ result'[1].out.exc = ""
            /\ result'[1].out.val \in BOOLEAN]_vars

\* A wrapper in a cause cycle of three wrappers has been classified.
C5_Witness ==
    /\ result # None
    /\ Len(heap) = 3
    /\ heap[1].cls \in Wrappers /\ heap[1].d["__cause__"] = Some(2)
    /\ heap[2].cls \in Wrappers /\ heap[2].d["__cause__"] = Some(3)
    /\ heap[3].cls \in Wrappers /\ heap[3].d["__cause__"] = Some(1)
    /\ result[1].arg = 1
    /\ result[1].out = Return(FALSE)

\* C6: the failure accessor of an instance of any of the eight variants built
\* by its constructor is None, whatever the arguments.
C6_FailureAbsent ==
    (heap # <<>> /\ heap[1].cls \in Variants) =>
        /\ getattr(heap[1], "failure").exc = ""
        /\ Get(heap[1], "failure") = None

\* A ChildWorkflowError with a retry state has been constructed.
C6_Witness ==
    /\ heap # <<>>
    /\ heap[1].cls = "ChildWorkflowError"
    /\ call.cls = "ChildWorkflowError"
    /\ call.retry_state = Some("TIMEOUT")
    /\ Get(heap[1], "failure") = None

\* C7: CancelledError() has message "Cancelled" and no details;
\* CancelledError(m, ...) has message m; the display string is the message in
\* both cases.
C7_CancelledDefault ==
    (heap # <<>> /\ call.cls = "CancelledError") =>
        /\ Len(call.posargs) = 0 =>
              (Get(heap[1], "message") = STR_Cancelled /\ Get(heap[1], "details") = <<>>)
        /\ Len(call.posargs) > 0 => Get(heap[1], "message") = call.posargs[1]
        /\ str(heap[1]) = Get(heap[1], "message")

\* CancelledError() has been constructed.
C7_Witness ==
    /\ heap # <<>>
    /\ call.cls = "CancelledError"
    /\ call.posargs = <<>>
    /\ Get(heap[1], "message") = STR_Cancelled
    /\ str(heap[1]) = STR_Cancelled

\* C8: a WorkflowAlreadyStartedError has the message "Workflow execution
\* already started" whatever it is given, and its run_id is None when none was
\* passed and the passed value otherwise.
C8_AlreadyStarted ==
    (heap # <<>> /\ call.cls = "WorkflowAlreadyStartedError") =>
        /\ Get(heap[1], "message") = STR_AlreadyStarted
        /\ getattr(heap[1], "run_id").exc = ""
        /\ Get(heap[1], "run_id") = call.run_id

\* WorkflowAlreadyStartedError("x", "x", run_id="y") has been constructed.
C8_Witness ==
    /\ heap # <<>>
    /\ last = "new"
    /\ call.cls = "WorkflowAlreadyStartedError"
    /\ call.workflow_id = <<"x">>
    /\ call.run_id = Some(<<"y">>)
    /\ Get(heap[1], "run_id") = Some(<<"y">>)

\* C9 as claimed: a TimeoutError has non-empty last_heartbeat_details only when
\* its type is HEARTBEAT.
C9_AsClaimed ==
    (heap # <<>> /\ call.cls = "TimeoutError") =>
        (Get(heap[1], "last_heartbeat_details") # <<>> =>
            Get(heap[1], "type") = Some("HEARTBEAT"))

\* C9 as amended: a TimeoutError carries the type and the last_heartbeat_details
\* its constructor was given, unchanged and independent of each other.
C9_StoredAsPassed ==
    (heap # <<>> /\ call.cls = "TimeoutError") =>
        /\ Get(heap[1], "type") = call.type
        /\ Get(heap[1], "last_heartbeat_details") = call.last_heartbeat_details

\* A START_TO_CLOSE timeout has been constructed with a heartbeat payload.
C9_Witness ==
    /\ heap # <<>>
    /\ call.cls = "TimeoutError"
    /\ call.type = Some("START_TO_CLOSE")
    /\ Get(heap[1], "type") = Some("START_TO_CLOSE")
    /\ Get(heap[1], "last_heartbeat_details") = <<"p">>

====
